---- MODULE Spec2Model ----
(***************************************************************************)
(* Multi-track fragment synchronisation of yt-dlp's live downloaders:      *)
(* the per-track ledgers HlsTimeline / DashTimeline                        *)
(* (yt_dlp/downloader/utils/timeline.py), the pacing coordinator Playback  *)
(* (yt_dlp/downloader/utils/playback.py) and the gap-filling Timeline      *)
(* (yt_dlp/timeline.py).                                                   *)
(*                                                                         *)
(* Time is a grid of integers; one unit is DashTolerance (0.1 s), the      *)
(* tolerance DashTimeline.insert_one compares with.  math.inf is the value *)
(* Infinity, larger than every time a ledger can hold.  The gap-filling    *)
(* Timeline is on a grid of its own, one unit being its tolerance          *)
(* GapTolerance (0.01 s).                                                  *)
(***************************************************************************)
EXTENDS Integers, Sequences, FiniteSets, TLC

\* ---------------------------------------------------------------- bounds
MaxTime == 3        \* largest segment end a ledger may hold
MaxSegs == 3        \* segments the ledgers hold together when the manifests stop growing

\* fragment durations and media sequence numbers the manifests report
Durations == {1, 2}
MediaSequences == {1, 2, 3}

\* tolerance = 0.1 (DashTimeline.insert_one), one grid unit.
DashTolerance == 1

Infinity == MaxTime + 1

\* Playback.timelines, in list order (test_timeline.py: audio, video).
TrackList == <<"audio", "video">>
Tracks == {TrackList[i] : i \in 1..Len(TrackList)}

\* The spans a Playback is constructed with: (start, end), end possibly
\* math.inf (hls.py: (0, inf) or (start_time, inf)).  (2, 2) is an empty
\* window.
Spans == {<<0, Infinity>>, <<2, Infinity>>, <<0, 2>>, <<2, 2>>}

\* Fragment descriptors the manifests deliver: start < end.  An HLS fragment
\* carries its duration and media_sequence as well.
DashFragments ==
    {[start |-> s, end |-> s + d] : s \in 0..(MaxTime - 1), d \in Durations}
HlsFragments ==
    {[start |-> s, end |-> s + d, duration |-> d, media_sequence |-> q] :
        s \in 0..(MaxTime - 1), d \in Durations, q \in MediaSequences}

VARIABLES
    kind,          \* the Timeline class of the Playback's timelines
    span,          \* <<_span_start, _span_end>>
    segments,      \* segments[t]: Timeline.segments of timeline t
    cursor,        \* Playback._cursor
    lastOp,        \* "init", "insert" or "seek": the last call made
    outcome,       \* how the last seek ended: "batch", "finished", "error"
    batch,         \* what the last seek returned
    oldCursor,     \* _cursor when the last call started
    prevOutcome,   \* outcome of the call before, if that was a seek too
    released,      \* released[t][i]: how many seeks returned segments[t][i]
    finished,      \* some seek has raised PlaybackFinish
    prevFinished   \* finished, before the last call

pvars == <<kind, span, segments, cursor, lastOp, outcome, batch, oldCursor,
           prevOutcome, released, finished, prevFinished>>

\* One Timeline taken alone, under any of the three insertion policies.
VARIABLES
    policy,        \* "gap" (yt_dlp/timeline.py), "dash" or "hls"
    origin,        \* the time the manifests count from
    ledger,        \* Timeline.segments
    ledgerBefore,  \* Timeline.segments when the last call started
    call,          \* "init", "insert_one", "insert_many", "seek", "get_start":
                   \* the last call made
    given,         \* the segments the last call was given, in order
    fed            \* what is known of a chain of contiguous insertions

lvars == <<policy, origin, ledger, ledgerBefore, call, given, fed>>

\* A Playback whose timelines are sent segments with times missing or null.
VARIABLES
    reply          \* what the last call did: raised, or returned value

rvars == <<reply>>

\* One NonDuplicateProcessingList and the results its seek has handed out.
VARIABLES
    processing_list,  \* the dict, as the sequence of its items in insertion order
    head_key,         \* the key seek marked, or NoHead
    listBefore,       \* processing_list when the last call started
    headBefore,       \* head_key when the last call started
    listCall,         \* "init", "insert", "insert_many", "seek": the last call
    listGiven,        \* the items the last call was given, in order
    sought,           \* what the last seek returned
    handed            \* the results of the seeks so far

nvars == <<processing_list, head_key, listBefore, headBefore, listCall,
           listGiven, sought, handed>>

\* A Playback asked for one of its timelines by id.
VARIABLES
    owned,         \* the ids of the timelines the Playback was built with, in order
    lookup         \* the last lookup: the call, the id asked for, what it did

kvars == <<owned, lookup>>

\* HlsLiveFD.real_download around a Playback over HlsTimelines.
VARIABLES
    pc,            \* where real_download is: "poll", "seek", "dispatch", "end",
                   \* "final", "done" (returned) or "failed" (raised)
    turn,          \* the timeline the for loop at pc is at, counted from 1
    is_end_list,   \* a manifest has reported the end of the playlist
    interrupted,   \* KeyboardInterrupt was raised in the loop
    pending,       \* what is left to dispatch of the batch seek returned
    dispatched,    \* per timeline, the segments given to download_and_append_fragments
    round,         \* this round of the loop: insert_many and seek calls so far
    finalized      \* per timeline, the _finish_frag_download calls and the offset set

dvars == <<pc, turn, is_end_list, interrupted, pending, dispatched, round,
           finalized>>

vars == <<pvars, lvars, rvars, nvars, kvars, dvars>>

\* ------------------------------------------------------------ timelines
Last(s) == s[Len(s)]

\* math.isclose(a, b, abs_tol=tol, rel_tol=0)
IsClose(a, b, tol) == (IF a >= b THEN a - b ELSE b - a) <= tol

\* insert_one that stores a close segment with the start it reports
DashInsertOneNoClamp(segs, new) ==
    IF Len(segs) = 0 THEN Append(segs, new)
    ELSE LET last == Last(segs) IN
         IF last.end - DashTolerance > new.start THEN segs
         ELSE Append(segs, new)

\* insert_one that bridges a gap by stretching the segment it appends
DashInsertOneBridge(segs, new) ==
    IF Len(segs) = 0 THEN Append(segs, new)
    ELSE LET last == Last(segs) IN
         IF last.end - DashTolerance > new.start THEN segs
         ELSE Append(segs, [new EXCEPT !.start = last.end, !.end = new.end])

\* DashTimeline.insert_one (start and end present)
DashInsertOne(segs, new) ==
    IF Len(segs) = 0 THEN Append(segs, new)
    ELSE LET last == Last(segs) IN
         IF last.end - DashTolerance > new.start THEN segs
         ELSE IF IsClose(last.end, new.start, DashTolerance)
              THEN Append(segs, [new EXCEPT !.start = last.end, !.end = new.end])
              ELSE Append(segs, new)

\* insert_one that takes a known or older media sequence for a jump
HlsInsertOneNoDuplicateTest(segs, new) ==
    IF Len(segs) = 0 THEN Append(segs, new)
    ELSE LET last == Last(segs)
             media_sequence_difference == last.media_sequence - new.media_sequence
         IN  IF media_sequence_difference = -1
             THEN Append(segs, [new EXCEPT !.start = last.end,
                                           !.end = last.end + new.duration])
             ELSE Append(segs, new)

\* insert_one that pins a segment to the end of the ledger after a jump too
HlsInsertOnePinJump(segs, new) ==
    IF Len(segs) = 0 THEN Append(segs, new)
    ELSE LET last == Last(segs)
             media_sequence_difference == last.media_sequence - new.media_sequence
         IN  IF media_sequence_difference >= 0 THEN segs
             ELSE Append(segs, [new EXCEPT !.start = last.end,
                                           !.end = last.end + new.duration])

\* insert_one that believes the times the next segment reports
HlsInsertOneAsReported(segs, new) ==
    IF Len(segs) = 0 THEN Append(segs, new)
    ELSE LET last == Last(segs)
             media_sequence_difference == last.media_sequence - new.media_sequence
         IN  IF media_sequence_difference >= 0 THEN segs
             ELSE Append(segs, new)

\* HlsTimeline.insert_one
HlsInsertOne(segs, new) ==
    IF Len(segs) = 0 THEN Append(segs, new)
    ELSE LET last == Last(segs)
             media_sequence_difference == last.media_sequence - new.media_sequence
         IN  IF media_sequence_difference >= 0 THEN segs
             ELSE IF media_sequence_difference = -1
                  THEN Append(segs, [new EXCEPT !.start = last.end,
                                                !.end = last.end + new.duration])
                  ELSE Append(segs, new)

InsertOne(k, segs, new) ==
    IF k = "dash" THEN DashInsertOne(segs, new) ELSE HlsInsertOne(segs, new)

Fragments(k) == IF k = "dash" THEN DashFragments ELSE HlsFragments

\* ------------------------------------------- gap-filling timeline
\* abs_tol = 0.01 (Timeline.insert_one of yt_dlp/timeline.py), one grid unit
GapTolerance == 1

\* 1 / rel_tol for the rel_tol = 1e-09 math.isclose takes by default
RelTolInverse == 1000000000

\* data of a filler: None
None == <<>>

\* data of a segment a caller supplies: what it holds, told by where the
\* manifest places it
Payload(s, d) == <<s, d>>

\* The times the manifests count from: 0, or 2e7 s (2e9 units of 0.01 s).
Origins == {0, 2000000000}

\* The largest segment end of a gap-filling ledger, counted from the
\* origin: room for a gap wider than the tolerance between two segments.
GapHorizon == MaxTime + 2

\* Segment: start < end, with its data
GapFragments(o) ==
    {[start |-> o + s, end |-> o + s + d, data |-> Payload(s, d)] :
        s \in 0..(GapHorizon - 1), d \in Durations}

Abs(x) == IF x >= 0 THEN x ELSE 0 - x
Larger(x, y) == IF x >= y THEN x ELSE y

\* math.isclose(a, b, abs_tol=tol): abs(a - b) <= max(rel_tol * max(abs(a),
\* abs(b)), abs_tol) with rel_tol = 1e-09.  The differences are whole, so
\* the product is compared rounded down.
IsCloseDefault(a, b, tol) ==
    Abs(a - b) <= Larger(Larger(Abs(a), Abs(b)) \div RelTolInverse, tol)

\* _insert_timeline_segment that stretches the last segment over a gap
\* instead of storing a filler
InsertTimelineSegmentInPlace(segs, segment, filling) ==
    IF filling
    THEN [segs EXCEPT ![Len(segs)].end = segment.end]
    ELSE Append(segs, [start |-> segment.start, end |-> segment.end,
                       data |-> segment.data, filling |-> filling])

\* Timeline._insert_timeline_segment
InsertTimelineSegment(segs, segment, filling) ==
    Append(segs, [start |-> segment.start, end |-> segment.end,
                  data |-> segment.data, filling |-> filling])

\* insert_one without the test that turns overlapping segments away
GapInsertOneNoReject(segs, new) ==
    IF Len(segs) = 0 THEN InsertTimelineSegment(segs, new, FALSE)
    ELSE LET last == Last(segs) IN
         IF IsCloseDefault(last.end, new.start, GapTolerance)
         THEN InsertTimelineSegment(segs, new, FALSE)
         ELSE InsertTimelineSegment(
                  InsertTimelineSegment(segs,
                      [start |-> last.end, end |-> new.start, data |-> None],
                      TRUE),
                  new, FALSE)

\* insert_one without the test for a start close to the end of the ledger
GapInsertOneNoTolerance(segs, new) ==
    IF Len(segs) = 0 THEN InsertTimelineSegment(segs, new, FALSE)
    ELSE LET last == Last(segs) IN
         IF last.end > new.start THEN segs
         ELSE InsertTimelineSegment(
                  InsertTimelineSegment(segs,
                      [start |-> last.end, end |-> new.start, data |-> None],
                      TRUE),
                  new, FALSE)

\* Timeline.insert_one of yt_dlp/timeline.py
GapInsertOne(segs, new) ==
    IF Len(segs) = 0 THEN InsertTimelineSegment(segs, new, FALSE)
    ELSE LET last == Last(segs) IN
         IF last.end > new.start THEN segs
         ELSE IF IsCloseDefault(last.end, new.start, GapTolerance)
              THEN InsertTimelineSegment(segs, new, FALSE)
              ELSE InsertTimelineSegment(
                       InsertTimelineSegment(segs,
                           [start |-> last.end, end |-> new.start, data |-> None],
                           TRUE),
                       new, FALSE)

\* insert_one of the timeline's class
PolicyInsertOne(p, segs, new) ==
    IF p = "gap" THEN GapInsertOne(segs, new) ELSE InsertOne(p, segs, new)

\* insert_many: insert_one for each segment, in the order given
RECURSIVE InsertMany(_, _, _)
InsertMany(p, segs, news) ==
    IF Len(news) = 0 THEN segs
    ELSE InsertMany(p, PolicyInsertOne(p, segs, Head(news)), Tail(news))

\* Fragments of a DASH manifest, far enough for one to start after the end
\* of another by more than the tolerance
WideDashFragments ==
    {[start |-> s, end |-> s + d] : s \in 0..(GapHorizon - 1), d \in Durations}

PolicyFragments(p, o) ==
    IF p = "gap" THEN GapFragments(o)
    ELSE IF p = "dash" THEN WideDashFragments ELSE Fragments(p)

\* The segments of one manifest, in the manifest's order: an HLS playlist
\* numbers its segments one after the other (media_sequence += 1), the
\* others list theirs by start time.
Batches(p, o) ==
    {b \in PolicyFragments(p, o) \X PolicyFragments(p, o) :
        IF p = "hls" THEN b[2].media_sequence = b[1].media_sequence + 1
                     ELSE b[2].start >= b[1].start}

\* ------------------------------------------------------------- playback
\* get_filtered_segments that applies no filter
GetAllSegments(segs, c) == segs

\* Timeline.get_filtered_segments with the filter of _get_next_cursor
GetFilteredSegments(segs, c) == SelectSeq(segs, LAMBDA s : s.end >= c)

\* cut_section: the prefix before the first segment with start >= _span_end
RECURSIVE CutEnd(_, _, _)
CutEnd(segs, spanEnd, index) ==
    IF index = Len(segs) THEN index
    ELSE IF segs[index + 1].start >= spanEnd THEN index
    ELSE CutEnd(segs, spanEnd, index + 1)

CutSection(segs, spanEnd) == SubSeq(segs, 1, CutEnd(segs, spanEnd, 0))

SetMax(S) == CHOOSE x \in S : \A y \in S : y <= x
SetMin(S) == CHOOSE x \in S : \A y \in S : x <= y

Ends(segs) == {segs[i].end : i \in 1..Len(segs)}

\* _get_next_cursor without the early return for a track that has nothing
\* relevant: the minimum is taken over the other tracks
GetNextCursorSkipEmpty(tls, c, spanEnd) ==
    LET rel == [t \in Tracks |-> GetFilteredSegments(tls[t], c)]
        live == {t \in Tracks : Len(rel[t]) > 0}
        cut == [t \in live |-> CutSection(rel[t], spanEnd)]
    IN  IF live = {} THEN [ok |-> TRUE, value |-> c]
        ELSE IF \E t \in live : Len(cut[t]) = 0 THEN [ok |-> FALSE, value |-> c]
        ELSE [ok |-> TRUE,
              value |-> SetMin({SetMax(Ends(cut[t])) : t \in live})]

\* _get_next_cursor with max() across the timelines in place of min()
GetNextCursorMaxTrack(tls, c, spanEnd) ==
    LET rel == [t \in Tracks |-> GetFilteredSegments(tls[t], c)] IN
    IF \E t \in Tracks : Len(rel[t]) = 0 THEN [ok |-> TRUE, value |-> c]
    ELSE LET cut == [t \in Tracks |-> CutSection(rel[t], spanEnd)] IN
         IF \E t \in Tracks : Len(cut[t]) = 0 THEN [ok |-> FALSE, value |-> c]
         ELSE [ok |-> TRUE,
               value |-> SetMax({SetMax(Ends(cut[t])) : t \in Tracks})]

\* _get_next_cursor: [ok, value]; ok = FALSE when max() is given an empty
\* sequence and raises ValueError.
GetNextCursor(tls, c, spanEnd) ==
    LET rel == [t \in Tracks |-> GetFilteredSegments(tls[t], c)] IN
    IF \E t \in Tracks : Len(rel[t]) = 0 THEN [ok |-> TRUE, value |-> c]
    ELSE LET cut == [t \in Tracks |-> CutSection(rel[t], spanEnd)] IN
         IF \E t \in Tracks : Len(cut[t]) = 0 THEN [ok |-> FALSE, value |-> c]
         ELSE [ok |-> TRUE,
               value |-> SetMin({SetMax(Ends(cut[t])) : t \in Tracks})]

\* the filter of seek without its lower bound: start < next_cursor
InWindowNoLower(s, c, next) == s.start < next

\* the filter of seek: cursor <= start < next_cursor
InWindow(s, c, next) == c <= s.start /\ s.start < next

\* the list seek returns: (timeline, filtered_segments), empty ones left out
RECURSIVE SeekBatch(_, _, _, _)
SeekBatch(tls, c, next, i) ==
    IF i > Len(TrackList) THEN <<>>
    ELSE LET t == TrackList[i]
             filtered == SelectSeq(tls[t], LAMBDA s : InWindow(s, c, next))
             rest == SeekBatch(tls, c, next, i + 1)
         IN  IF Len(filtered) > 0
             THEN <<[timeline |-> t, segments |-> filtered]>> \o rest
             ELSE rest

\* seek without the PlaybackFinish test
SeekOutcomeNoFinish(next, spanEnd) == IF ~next.ok THEN "error" ELSE "batch"

\* seek, lines 74-77: ValueError from _get_next_cursor propagates;
\* next_cursor >= _span_end raises PlaybackFinish; otherwise a batch is returned
SeekOutcome(next, spanEnd) ==
    IF ~next.ok THEN "error"
    ELSE IF next.value >= spanEnd THEN "finished" ELSE "batch"

Bump(n) == IF n >= 2 THEN 2 ELSE n + 1

\* ------------------------------------------------------------- behaviour
\* Optional[float] that is None, and a key the dict does not have; every
\* time that is known is 0 or more
NoTime == 0 - 1
NoKey == 0 - 2

\* head_key = None
NoHead == "None"

\* no call has returned or raised
RawIdle == reply = [raised |-> FALSE, value |-> NoTime]

\* no NonDuplicateProcessingList is built
ListIdle ==
    /\ processing_list = <<>>
    /\ head_key = NoHead
    /\ listBefore = <<>>
    /\ headBefore = NoHead
    /\ listCall = "init"
    /\ listGiven = <<>>
    /\ sought = [null |-> TRUE, items |-> <<>>]
    /\ handed = [first |-> FALSE, later |-> <<>>, once |-> <<>>]

\* get_timeline returned None
NoTimeline == 0

\* no Playback is asked for a timeline
LookupIdle ==
    /\ owned = <<>>
    /\ lookup = [call |-> "init", asked |-> "", raised |-> FALSE, found |-> NoTimeline]

\* the round of the loop that has called nothing yet
NewRound ==
    [polled |-> 0, seeks |-> 0, polledAtSeek |-> 0, insertedSinceSeek |-> FALSE]

\* a timeline that is not finalized: no call, no offset
NotFinalized == [times |-> 0, offset |-> NoTime]

\* real_download is not running
DriverIdle ==
    /\ pc = "none"
    /\ turn = 0
    /\ is_end_list = FALSE
    /\ interrupted = FALSE
    /\ pending = <<>>
    /\ dispatched = [t \in Tracks |-> <<>>]
    /\ round = NewRound
    /\ finalized = [t \in Tracks |-> NotFinalized]

\* no Timeline is taken alone
LedgerIdle ==
    /\ policy = "none"
    /\ origin = 0
    /\ ledger = <<>>
    /\ ledgerBefore = <<>>
    /\ call = "init"
    /\ given = <<>>
    /\ fed = [chain |-> FALSE, count |-> 0, duration |-> 0, end |-> 0]

Init ==
    /\ LedgerIdle
    /\ RawIdle
    /\ ListIdle
    /\ LookupIdle
    /\ DriverIdle
    /\ kind \in {"dash", "hls"}
    /\ span \in Spans
    /\ segments = [t \in Tracks |-> <<>>]
    /\ cursor = span[1]
    /\ lastOp = "init"
    /\ outcome = "none"
    /\ batch = <<>>
    /\ oldCursor = span[1]
    /\ prevOutcome = "none"
    /\ released = [t \in Tracks |-> <<>>]
    /\ finished = FALSE
    /\ prevFinished = FALSE

RECURSIVE TotalFrom(_, _)
TotalFrom(tls, i) ==
    IF i > Len(TrackList) THEN 0 ELSE Len(tls[TrackList[i]]) + TotalFrom(tls, i + 1)
TotalSegments(tls) == TotalFrom(tls, 1)

\* timeline.insert_one(new) on one timeline of the Playback
Insert ==
    \E t \in Tracks : \E new \in Fragments(kind) :
        /\ TotalSegments(segments) < MaxSegs
        /\ \E after \in {InsertOne(kind, segments[t], new)} :
            /\ Len(after) > Len(segments[t]) => Last(after).end <= MaxTime
            /\ segments' = [segments EXCEPT ![t] = after]
            /\ released' = [released EXCEPT ![t] =
                   IF Len(after) > Len(segments[t]) THEN Append(@, 0) ELSE @]
            /\ lastOp' = "insert"
            /\ outcome' = "none"
            /\ batch' = <<>>
            /\ oldCursor' = cursor
            /\ prevOutcome' = "none"
            /\ prevFinished' = finished
            /\ UNCHANGED <<kind, span, cursor, finished>>
            /\ UNCHANGED <<lvars, rvars, nvars, kvars, dvars>>

\* playback.seek()
Seek ==
    LET next == GetNextCursor(segments, cursor, span[2])
        out == SeekOutcome(next, span[2])
    IN
    /\ lastOp' = "seek"
    /\ outcome' = out
    /\ oldCursor' = cursor
    /\ prevOutcome' = IF lastOp = "seek" THEN outcome ELSE "none"
    /\ prevFinished' = finished
    /\ finished' = (finished \/ out = "finished")
    /\ IF out = "batch"
       THEN /\ batch' = SeekBatch(segments, cursor, next.value, 1)
            /\ cursor' = next.value
            /\ released' = [t \in Tracks |-> [i \in 1..Len(segments[t]) |->
                   IF InWindow(segments[t][i], cursor, next.value)
                   THEN Bump(released[t][i]) ELSE released[t][i]]]
       ELSE /\ batch' = <<>>
            /\ UNCHANGED <<cursor, released>>
    /\ UNCHANGED <<kind, span, segments>>
    /\ UNCHANGED <<lvars, rvars, nvars, kvars, dvars>>

Next == Insert \/ Seek

Spec == Init /\ [][Next]_vars

\* ----------------------------------------------- one timeline taken alone
\* no Playback is built
PlaybackIdle ==
    /\ kind = "none"
    /\ span = <<0, Infinity>>
    /\ segments = [t \in Tracks |-> <<>>]
    /\ cursor = 0
    /\ lastOp = "init"
    /\ outcome = "none"
    /\ batch = <<>>
    /\ oldCursor = 0
    /\ prevOutcome = "none"
    /\ released = [t \in Tracks |-> <<>>]
    /\ finished = FALSE
    /\ prevFinished = FALSE

\* Timeline.__init__: no segments
LedgerInit ==
    /\ PlaybackIdle
    /\ RawIdle
    /\ ListIdle
    /\ LookupIdle
    /\ DriverIdle
    /\ policy \in {"gap", "dash", "hls"}
    /\ origin \in (IF policy = "gap" THEN Origins ELSE {0})
    /\ ledger = <<>>
    /\ ledgerBefore = <<>>
    /\ call = "init"
    /\ given = <<>>
    /\ fed = [chain |-> TRUE, count |-> 0, duration |-> 0, end |-> 0]

\* the chain of contiguous insertions into the empty timeline, one longer
Feed(f, new) ==
    IF f.chain /\ (f.count = 0 \/ new.start = f.end)
    THEN [chain |-> TRUE, count |-> f.count + 1,
          duration |-> f.duration + (new.end - new.start), end |-> new.end]
    ELSE [chain |-> FALSE, count |-> 0, duration |-> 0, end |-> 0]

RECURSIVE FeedMany(_, _)
FeedMany(f, news) ==
    IF Len(news) = 0 THEN f ELSE FeedMany(Feed(f, Head(news)), Tail(news))

\* the manifests stop growing: no stored segment ends after the horizon
WithinHorizon(segs) ==
    \A i \in 1..Len(segs) :
        segs[i].end <= origin + (IF policy = "hls" THEN MaxTime ELSE GapHorizon)

\* timeline.insert_one(new)
LedgerInsertOne ==
    \E new \in PolicyFragments(policy, origin) :
        /\ Len(ledger) < MaxSegs
        /\ \E after \in {PolicyInsertOne(policy, ledger, new)} :
            /\ WithinHorizon(after)
            /\ ledger' = after
        /\ ledgerBefore' = ledger
        /\ call' = "insert_one"
        /\ given' = <<new>>
        /\ fed' = Feed(fed, new)
        /\ UNCHANGED <<policy, origin>>
        /\ UNCHANGED <<pvars, rvars, nvars, kvars, dvars>>

\* timeline.insert_many(news)
LedgerInsertMany ==
    \E news \in Batches(policy, origin) :
        /\ Len(ledger) < MaxSegs
        /\ \E after \in {InsertMany(policy, ledger, news)} :
            /\ WithinHorizon(after)
            /\ ledger' = after
        /\ ledgerBefore' = ledger
        /\ call' = "insert_many"
        /\ given' = news
        /\ fed' = FeedMany(fed, news)
        /\ UNCHANGED <<policy, origin>>
        /\ UNCHANGED <<pvars, rvars, nvars, kvars, dvars>>

\* a stored segment, as a caller passes it to insert_one
AsGiven(p, seg) ==
    IF p = "gap" THEN [start |-> seg.start, end |-> seg.end, data |-> seg.data]
    ELSE seg

\* timeline.insert_one(timeline.segments[i]): a segment stored already is
\* sent again
LedgerReinsert ==
    \E i \in 1..Len(ledger) :
        /\ Len(ledger) < MaxSegs
        /\ \E after \in {PolicyInsertOne(policy, ledger, AsGiven(policy, ledger[i]))} :
            /\ WithinHorizon(after)
            /\ ledger' = after
        /\ ledgerBefore' = ledger
        /\ call' = "insert_one"
        /\ given' = <<AsGiven(policy, ledger[i])>>
        /\ fed' = Feed(fed, ledger[i])
        /\ UNCHANGED <<policy, origin>>
        /\ UNCHANGED <<pvars, rvars, nvars, kvars, dvars>>

\* What a Playback that holds the timeline leaves of timeline.segments:
\* seek and get_start filter and index the list, and assign nothing to it.
ReadSegments(segs) == segs

\* playback.seek()
LedgerSeek ==
    /\ call' = "seek"
    /\ ledgerBefore' = ledger
    /\ ledger' = ReadSegments(ledger)
    /\ given' = <<>>
    /\ UNCHANGED <<policy, origin, fed>>
    /\ UNCHANGED <<pvars, rvars, nvars, kvars, dvars>>

\* playback.get_start()
LedgerGetStart ==
    /\ call' = "get_start"
    /\ ledgerBefore' = ledger
    /\ ledger' = ReadSegments(ledger)
    /\ given' = <<>>
    /\ UNCHANGED <<policy, origin, fed>>
    /\ UNCHANGED <<pvars, rvars, nvars, kvars, dvars>>

LedgerNext ==
    \/ LedgerInsertOne
    \/ LedgerInsertMany
    \/ LedgerReinsert
    \/ LedgerSeek
    \/ LedgerGetStart

SpecLedger == LedgerInit /\ [][LedgerNext]_vars

\* ------------------------------------ segments with times missing or null
Known(x) == x >= 0

\* how a placeholder entry of a manifest has its start and its end:
\* present, None, or absent
Shapes ==
    {<<"null", "null">>, <<"missing", "missing">>, <<"value", "null">>,
     <<"null", "value">>, <<"value", "missing">>}

Shaped(v, shape) ==
    IF shape = "value" THEN v ELSE IF shape = "null" THEN NoTime ELSE NoKey

\* placeholder entries: the shortest fragments, start or end not known
Placeholders(k) ==
    {[f EXCEPT !.start = Shaped(f.start, shape[1]), !.end = Shaped(f.end, shape[2])] :
        f \in {g \in PolicyFragments(k, 0) : \A h \in PolicyFragments(k, 0) :
                   g.end - g.start <= h.end - h.start},
        shape \in Shapes}

\* fragments of a manifest, placeholders among them
RawFragments(k) == PolicyFragments(k, 0) \cup Placeholders(k)

WellFormed(f) == Known(f.start) /\ Known(f.end)

AllWellFormed(tls) ==
    \A t \in Tracks : \A i \in 1..Len(tls[t]) : WellFormed(tls[t][i])

Done(segs) == [segs |-> segs, raised |-> FALSE]
Threw(segs) == [segs |-> segs, raised |-> TRUE]

\* DashTimeline.insert_one: new_segment.get('start') is None or
\* new_segment.get('end') is None returns at once
RawDashInsertOne(segs, new) ==
    IF ~Known(new.start) \/ ~Known(new.end) THEN Done(segs)
    ELSE Done(DashInsertOne(segs, new))

\* HlsTimeline.insert_one: start and end are read only of the last segment,
\* and only to pin the next one: last_segment['end'] raises KeyError when
\* absent, None + duration raises TypeError
RawHlsInsertOne(segs, new) ==
    IF /\ Len(segs) > 0
       /\ Last(segs).media_sequence - new.media_sequence = 0 - 1
       /\ ~Known(Last(segs).end)
    THEN Threw(segs)
    ELSE Done(HlsInsertOne(segs, new))

\* Timeline.insert_one of yt_dlp/timeline.py: segment['start'] and
\* segment['end'] raise KeyError when absent, last.end > start raises
\* TypeError when either is None
RawGapInsertOne(segs, new) ==
    IF Len(segs) = 0
    THEN IF new.start = NoKey \/ new.end = NoKey THEN Threw(segs)
         ELSE Done(InsertTimelineSegment(segs, new, FALSE))
    ELSE LET last == Last(segs) IN
         IF new.start = NoKey THEN Threw(segs)
         ELSE IF last.end = NoTime \/ new.start = NoTime THEN Threw(segs)
         ELSE IF last.end > new.start THEN Done(segs)
         ELSE IF IsCloseDefault(last.end, new.start, GapTolerance)
              THEN IF new.end = NoKey THEN Threw(segs)
                   ELSE Done(InsertTimelineSegment(segs, new, FALSE))
              ELSE LET filled == InsertTimelineSegment(segs,
                                     [start |-> last.end, end |-> new.start,
                                      data |-> None], TRUE)
                   IN  IF new.end = NoKey THEN Threw(filled)
                       ELSE Done(InsertTimelineSegment(filled, new, FALSE))

RawInsertOne(k, segs, new) ==
    IF k = "gap" THEN RawGapInsertOne(segs, new)
    ELSE IF k = "dash" THEN RawDashInsertOne(segs, new)
    ELSE RawHlsInsertOne(segs, new)

\* next((segment['start'] for segment in timeline.segments
\*       if segment['start'] >= self._initial_cursor), None)
RECURSIVE FirstStartFrom(_, _, _)
FirstStartFrom(segs, i, initial_cursor) ==
    IF i > Len(segs) THEN [raised |-> FALSE, value |-> NoTime]
    ELSE IF ~Known(segs[i].start) THEN [raised |-> TRUE, value |-> NoTime]
    ELSE IF segs[i].start >= initial_cursor
         THEN [raised |-> FALSE, value |-> segs[i].start]
         ELSE FirstStartFrom(segs, i + 1, initial_cursor)

\* Playback.get_timeline_start (no item of timeline.segments is None, and
\* _initial_cursor is the start of the span)
GetTimelineStart(segs, initial_cursor) ==
    IF Len(segs) = 0 THEN [raised |-> FALSE, value |-> NoTime]
    ELSE FirstStartFrom(segs, 1, initial_cursor)

\* Playback.get_start
GetStart(tls, initial_cursor) ==
    LET timelines_starts == [t \in Tracks |-> GetTimelineStart(tls[t], initial_cursor)]
    IN  IF \E t \in Tracks : timelines_starts[t].raised
        THEN [raised |-> TRUE, value |-> NoTime]
        ELSE IF \E t \in Tracks : timelines_starts[t].value = NoTime
             THEN [raised |-> FALSE, value |-> NoTime]
             ELSE [raised |-> FALSE,
                   value |-> SetMin({timelines_starts[t].value : t \in Tracks})]

\* Timeline.__init__, of a timeline that placeholders are sent to
RawInit ==
    /\ PlaybackIdle
    /\ RawIdle
    /\ ListIdle
    /\ LookupIdle
    /\ DriverIdle
    /\ policy \in {"gap", "dash", "hls"}
    /\ origin = 0
    /\ ledger = <<>>
    /\ ledgerBefore = <<>>
    /\ call = "init"
    /\ given = <<>>
    /\ fed = [chain |-> FALSE, count |-> 0, duration |-> 0, end |-> 0]

\* no stored segment with a known end lies beyond the horizon
RawWithinHorizon(k, segs) ==
    \A i \in 1..Len(segs) :
        segs[i].end <= (IF k = "hls" THEN MaxTime ELSE GapHorizon)

\* timeline.insert_one(new), the times of new present or not; a manifest
\* sends a placeholder only while the timeline holds none
RawInsert ==
    \E new \in RawFragments(policy) :
        /\ Len(ledger) < MaxSegs
        /\ WellFormed(new) \/ \A i \in 1..Len(ledger) : WellFormed(ledger[i])
        /\ \E done \in {RawInsertOne(policy, ledger, new)} :
            /\ RawWithinHorizon(policy, done.segs)
            /\ ledger' = done.segs
            /\ reply' = [raised |-> done.raised, value |-> NoTime]
        /\ ledgerBefore' = ledger
        /\ call' = "insert_one"
        /\ given' = <<new>>
        /\ UNCHANGED <<policy, origin, fed>>
        /\ UNCHANGED <<pvars, nvars, kvars, dvars>>

RawNext == RawInsert

SpecRaw == RawInit /\ [][RawNext]_vars

\* ------------------------------------------- the start of a playback
\* A span that starts after the first fragments of the manifests and
\* before their last ones
StartSpans == {<<1, Infinity>>}

\* Playback(timelines, span) over empty timelines of one class
StartInit ==
    /\ LedgerIdle
    /\ RawIdle
    /\ ListIdle
    /\ LookupIdle
    /\ DriverIdle
    /\ kind \in {"dash", "hls"}
    /\ span \in StartSpans
    /\ segments = [t \in Tracks |-> <<>>]
    /\ cursor = span[1]
    /\ lastOp = "init"
    /\ outcome = "none"
    /\ batch = <<>>
    /\ oldCursor = span[1]
    /\ prevOutcome = "none"
    /\ released = [t \in Tracks |-> <<>>]
    /\ finished = FALSE
    /\ prevFinished = FALSE

StartFrame ==
    UNCHANGED <<kind, span, cursor, outcome, batch, oldCursor, prevOutcome,
                released, finished, prevFinished, lvars, nvars, kvars,
                dvars>>

\* timeline.insert_one(new) on a timeline of the playback, the times of new
\* present or not
StartInsert ==
    \E t \in Tracks : \E new \in RawFragments(kind) :
        /\ TotalSegments(segments) < MaxSegs
        /\ WellFormed(new) \/ AllWellFormed(segments)
        /\ \E done \in {RawInsertOne(kind, segments[t], new)} :
            /\ RawWithinHorizon("hls", done.segs)
            /\ segments' = [segments EXCEPT ![t] = done.segs]
            /\ reply' = [raised |-> done.raised, value |-> NoTime]
        /\ lastOp' = "insert"
        /\ StartFrame

\* playback.get_start()
StartGetStart ==
    /\ reply' = GetStart(segments, span[1])
    /\ lastOp' = "get_start"
    /\ UNCHANGED segments
    /\ StartFrame

StartNext == StartInsert \/ StartGetStart

SpecStart == StartInit /\ [][StartNext]_vars

\* ------------------------------------------ NonDuplicateProcessingList
Keys == {"0", "1", "2"}
Values == {"A", "B"}

Items == {[key |-> k, value |-> v] : k \in Keys, v \in Values}

\* dicts a caller passes to insert_many: one or two items, their keys differ
Maps ==
    {<<i>> : i \in Items} \cup
    {m \in Items \X Items : m[1].key # m[2].key}

\* NonDuplicateProcessingList._exists
Exists(list, key) == \E i \in 1..Len(list) : list[i].key = key

\* insert as a plain dict assignment
ListInsertOverwrite(list, key, value) ==
    IF Exists(list, key)
    THEN [i \in 1..Len(list) |->
             IF list[i].key = key THEN [key |-> key, value |-> value] ELSE list[i]]
    ELSE Append(list, [key |-> key, value |-> value])

\* NonDuplicateProcessingList.insert
ListInsert(list, key, value) ==
    IF Exists(list, key) THEN list
    ELSE Append(list, [key |-> key, value |-> value])

\* insert_many that takes the keys of the dict last to first
RECURSIVE ListInsertManyReversed(_, _)
ListInsertManyReversed(list, new_items) ==
    IF Len(new_items) = 0 THEN list
    ELSE ListInsertManyReversed(
             ListInsert(list, Last(new_items).key, Last(new_items).value),
             SubSeq(new_items, 1, Len(new_items) - 1))

\* NonDuplicateProcessingList.insert_many
RECURSIVE ListInsertMany(_, _)
ListInsertMany(list, new_items) ==
    IF Len(new_items) = 0 THEN list
    ELSE ListInsertMany(ListInsert(list, Head(new_items).key, Head(new_items).value),
                        Tail(new_items))

\* processing_list_keys.index(self.head_key)
IndexOf(list, key) == CHOOSE i \in 1..Len(list) : list[i].key = key

NoResult(head) == [null |-> TRUE, items |-> <<>>, head |-> head, same |-> FALSE]

\* seek that returns the marked entry again
ListSeekFromMark(list, head) ==
    IF Len(list) = 0 THEN NoResult(head)
    ELSE IF head = NoHead
         THEN [null |-> FALSE, items |-> list, head |-> Last(list).key, same |-> TRUE]
         ELSE [null |-> FALSE,
               items |-> SubSeq(list, IndexOf(list, head), Len(list)),
               head |-> Last(list).key, same |-> FALSE]

\* NonDuplicateProcessingList.seek: what it returns (None, or the items of
\* the dict returned), the head_key it leaves, and whether the dict returned
\* is self.processing_list itself
ListSeek(list, head) ==
    IF Len(list) = 0 THEN NoResult(head)
    ELSE IF head = NoHead
         THEN [null |-> FALSE, items |-> list, head |-> Last(list).key, same |-> TRUE]
         ELSE LET seek_list == SubSeq(list, IndexOf(list, head) + 1, Len(list))
              IN  IF Len(seek_list) = 0 THEN NoResult(head)
                  ELSE [null |-> FALSE, items |-> seek_list,
                        head |-> Last(seek_list).key, same |-> FALSE]

\* NonDuplicateProcessingList.__init__
ListInit ==
    /\ PlaybackIdle
    /\ LedgerIdle
    /\ RawIdle
    /\ ListIdle
    /\ LookupIdle
    /\ DriverIdle

\* processing_list.insert(key, value)
DoInsert ==
    \E key \in Keys, value \in Values :
        /\ processing_list' = ListInsert(processing_list, key, value)
        /\ listBefore' = processing_list
        /\ headBefore' = head_key
        /\ listCall' = "insert"
        /\ listGiven' = <<[key |-> key, value |-> value]>>
        /\ UNCHANGED <<head_key, sought, handed>>
        /\ UNCHANGED <<pvars, lvars, rvars, kvars, dvars>>

\* processing_list.insert_many(new_items)
DoInsertMany ==
    \E new_items \in Maps :
        /\ processing_list' = ListInsertMany(processing_list, new_items)
        /\ listBefore' = processing_list
        /\ headBefore' = head_key
        /\ listCall' = "insert_many"
        /\ listGiven' = new_items
        /\ UNCHANGED <<head_key, sought, handed>>
        /\ UNCHANGED <<pvars, lvars, rvars, kvars, dvars>>

\* processing_list.seek(); the caller keeps the dict it is handed: the one
\* that is self.processing_list itself (first), the others joined (later),
\* and all of them as they were when handed out (once)
DoSeek ==
    LET found == ListSeek(processing_list, head_key) IN
    /\ head_key' = found.head
    /\ sought' = [null |-> found.null, items |-> found.items]
    /\ handed' = [first |-> handed.first \/ found.same,
                  later |-> IF found.same THEN handed.later
                            ELSE handed.later \o found.items,
                  once |-> handed.once \o found.items]
    /\ listBefore' = processing_list
    /\ headBefore' = head_key
    /\ listCall' = "seek"
    /\ listGiven' = <<>>
    /\ UNCHANGED processing_list
    /\ UNCHANGED <<pvars, lvars, rvars, kvars, dvars>>

ListNext == DoInsert \/ DoInsertMany \/ DoSeek

SpecList == ListInit /\ [][ListNext]_vars

\* ------------------------------- segments shorter than the tolerance
\* Times in units of 0.05 s, so that a segment can be shorter than the
\* tolerance of DashTimeline.insert_one.
FineTolerance == 2

\* segments the two timelines hold together when the manifests stop growing
FineSegs == MaxSegs + 1

FineFragments ==
    {[start |-> s, end |-> e] : s \in 0..(MaxTime - 1), e \in 1..MaxTime} \cap
    {f \in [start : 0..MaxTime, end : 0..MaxTime] : f.start < f.end}

\* DashTimeline.insert_one (start and end present), times in units of 0.05 s
FineDashInsertOne(segs, new) ==
    IF Len(segs) = 0 THEN Append(segs, new)
    ELSE LET last == Last(segs) IN
         IF last.end - FineTolerance > new.start THEN segs
         ELSE IF IsClose(last.end, new.start, FineTolerance)
              THEN Append(segs, [new EXCEPT !.start = last.end, !.end = new.end])
              ELSE Append(segs, new)

\* Playback(timelines, span) over two empty DashTimelines
FineInit ==
    /\ LedgerIdle
    /\ RawIdle
    /\ ListIdle
    /\ LookupIdle
    /\ DriverIdle
    /\ kind = "dash"
    /\ span = <<0, Infinity>>
    /\ segments = [t \in Tracks |-> <<>>]
    /\ cursor = span[1]
    /\ lastOp = "init"
    /\ outcome = "none"
    /\ batch = <<>>
    /\ oldCursor = span[1]
    /\ prevOutcome = "none"
    /\ released = [t \in Tracks |-> <<>>]
    /\ finished = FALSE
    /\ prevFinished = FALSE

\* timeline.insert_one(new) on one timeline of the Playback
FineInsert ==
    \E t \in Tracks : \E new \in FineFragments :
        /\ TotalSegments(segments) < FineSegs
        /\ \E after \in {FineDashInsertOne(segments[t], new)} :
            /\ segments' = [segments EXCEPT ![t] = after]
            /\ released' = [released EXCEPT ![t] =
                   IF Len(after) > Len(segments[t]) THEN Append(@, 0) ELSE @]
        /\ lastOp' = "insert"
        /\ outcome' = "none"
        /\ batch' = <<>>
        /\ oldCursor' = cursor
        /\ prevOutcome' = "none"
        /\ prevFinished' = finished
        /\ UNCHANGED <<kind, span, cursor, finished>>
        /\ UNCHANGED <<lvars, rvars, nvars, kvars, dvars>>

FineNext == FineInsert \/ Seek

SpecFine == FineInit /\ [][FineNext]_vars

\* ------------------------------------------- the gap-filling Playback
\* Timeline.get_segment_ends
GetSegmentEnds(segs) == {segs[i].end : i \in 1..Len(segs)}

\* get_values_bigger_or_equal_than
GetValuesBiggerOrEqualThan(values, target) == {v \in values : v >= target}

\* gap-filling Playback._get_next_cursor: min over the tracks of the max of
\* the ends at or after the cursor; max() of no value (and min() of no
\* track) raises ValueError
GapGetNextCursor(tls, c) ==
    LET available_starts ==
            [t \in Tracks |-> GetValuesBiggerOrEqualThan(GetSegmentEnds(tls[t]), c)]
    IN  IF \E t \in Tracks : available_starts[t] = {}
        THEN [ok |-> FALSE, value |-> c]
        ELSE [ok |-> TRUE,
              value |-> SetMin({SetMax(available_starts[t]) : t \in Tracks})]

\* Timeline.get_signature_segments
GetSignatureSegments(t, segs) ==
    [i \in 1..Len(segs) |->
        [track_id |-> t, start |-> segs[i].start, end |-> segs[i].end,
         data |-> segs[i].data, filling |-> segs[i].filling]]

\* chain.from_iterable over the tracks from the i-th on
RECURSIVE ChainFrom(_, _)
ChainFrom(tls, i) ==
    IF i > Len(TrackList) THEN <<>>
    ELSE GetSignatureSegments(TrackList[i], tls[TrackList[i]]) \o ChainFrom(tls, i + 1)

\* the filter of gap-filling Playback.seek
GapSeekBatch(tls, c, next) ==
    SelectSeq(ChainFrom(tls, 1), LAMBDA s : c <= s.start /\ s.start < next)

\* gap-filling Playback.__init__ over two empty Timelines
GapPlaybackInit ==
    /\ LedgerIdle
    /\ RawIdle
    /\ ListIdle
    /\ LookupIdle
    /\ DriverIdle
    /\ kind = "gap"
    /\ span = <<0, Infinity>>
    /\ segments = [t \in Tracks |-> <<>>]
    /\ cursor = 0
    /\ lastOp = "init"
    /\ outcome = "none"
    /\ batch = <<>>
    /\ oldCursor = 0
    /\ prevOutcome = "none"
    /\ released = [t \in Tracks |-> <<>>]
    /\ finished = FALSE
    /\ prevFinished = FALSE

\* track.insert_one(new) on one track of the gap-filling Playback
GapInsert ==
    \E t \in Tracks : \E new \in GapFragments(0) :
        /\ TotalSegments(segments) < MaxSegs
        /\ \E after \in {GapInsertOne(segments[t], new)} :
            /\ Len(after) > Len(segments[t]) => Last(after).end <= GapHorizon
            /\ segments' = [segments EXCEPT ![t] = after]
        /\ lastOp' = "insert"
        /\ outcome' = "none"
        /\ batch' = <<>>
        /\ oldCursor' = cursor
        /\ UNCHANGED <<kind, span, cursor, prevOutcome, released, finished,
                       prevFinished>>
        /\ UNCHANGED <<lvars, rvars, nvars, kvars, dvars>>

\* gap-filling playback.seek()
GapSeek ==
    LET next == GapGetNextCursor(segments, cursor) IN
    /\ lastOp' = "seek"
    /\ outcome' = IF next.ok THEN "batch" ELSE "error"
    /\ oldCursor' = cursor
    /\ IF next.ok
       THEN /\ batch' = GapSeekBatch(segments, cursor, next.value)
            /\ cursor' = next.value
       ELSE /\ batch' = <<>>
            /\ UNCHANGED cursor
    /\ UNCHANGED <<kind, span, segments, prevOutcome, released, finished,
                   prevFinished>>
    /\ UNCHANGED <<lvars, rvars, nvars, kvars, dvars>>

GapPlaybackNext == GapInsert \/ GapSeek

SpecGapPlayback == GapPlaybackInit /\ [][GapPlaybackNext]_vars

\* ------------------------------------------------ a timeline asked by id
TrackIds == {"audio", "video", "subs"}

\* an id no Playback is built with
Unknown == "other"

\* the lists of timelines a Playback is built with: ids that differ
OwnedLists ==
    {<<>>} \cup {<<a>> : a \in TrackIds}
    \cup {l \in TrackIds \X TrackIds : l[1] # l[2]}
    \cup {l \in TrackIds \X TrackIds \X TrackIds :
             l[1] # l[2] /\ l[1] # l[3] /\ l[2] # l[3]}

Owns(ids, id) == \E i \in 1..Len(ids) : ids[i] = id

\* next(... for ... in ... if ...): the place of the first with this id
FirstWith(ids, id) ==
    CHOOSE i \in 1..Len(ids) :
        ids[i] = id /\ \A j \in 1..(i - 1) : ids[j] # id

\* downloader Playback.get_timeline: next(..., None)
GetTimeline(ids, timeline_id) ==
    IF Owns(ids, timeline_id)
    THEN [raised |-> FALSE, found |-> FirstWith(ids, timeline_id)]
    ELSE [raised |-> FALSE, found |-> NoTimeline]

\* gap-filling Playback.get_track: next(...) with no default, StopIteration
\* when the generator is exhausted
GetTrack(ids, track_id) ==
    IF Owns(ids, track_id)
    THEN [raised |-> FALSE, found |-> FirstWith(ids, track_id)]
    ELSE [raised |-> TRUE, found |-> NoTimeline]

\* Playback.__init__: the timelines given
LookupInit ==
    /\ PlaybackIdle
    /\ LedgerIdle
    /\ RawIdle
    /\ ListIdle
    /\ DriverIdle
    /\ owned \in OwnedLists
    /\ lookup = [call |-> "init", asked |-> "", raised |-> FALSE, found |-> NoTimeline]

\* playback.get_timeline(timeline_id)
DoGetTimeline ==
    \E timeline_id \in TrackIds \cup {Unknown} :
        /\ lookup' = [call |-> "get_timeline", asked |-> timeline_id,
                      raised |-> GetTimeline(owned, timeline_id).raised,
                      found |-> GetTimeline(owned, timeline_id).found]
        /\ UNCHANGED owned
        /\ UNCHANGED <<pvars, lvars, rvars, nvars, dvars>>

\* playback.get_track(track_id)
DoGetTrack ==
    \E track_id \in TrackIds \cup {Unknown} :
        /\ lookup' = [call |-> "get_track", asked |-> track_id,
                      raised |-> GetTrack(owned, track_id).raised,
                      found |-> GetTrack(owned, track_id).found]
        /\ UNCHANGED owned
        /\ UNCHANGED <<pvars, lvars, rvars, nvars, dvars>>

LookupNext == DoGetTimeline \/ DoGetTrack

SpecLookup == LookupInit /\ [][LookupNext]_vars

\* ------------------------------------------- HlsLiveFD.real_download
\* abs_tol of the offset test, in the unit of the segment times
OffsetTolerance == 1

\* time.time() when real_download starts, on the scale of the segment times
StartTime == 1

\* span: (0, math.inf) with live_from_start, else (start_time, math.inf)
DriverSpans == {<<0, Infinity>>, <<StartTime, Infinity>>}

\* the fragments of a live playlist: the media sequence counts them from
\* the start of the stream, and each is reported to start one time unit
\* after the one before
PlaylistFragments == {f \in HlsFragments : f.start = f.media_sequence - 1}

\* what one downloaded manifest lists: nothing, one fragment, or two with
\* consecutive media sequences
Manifests ==
    {<<>>} \cup {<<f>> : f \in PlaylistFragments} \cup
    {m \in Batches("hls", 0) :
        m[1] \in PlaylistFragments /\ m[2] \in PlaylistFragments}

\* the for loop over playback.timelines that goes on to seek after its
\* first timeline
AfterPollSeekAtOnce(i) == [pc |-> "seek", turn |-> 0]

\* the for loop over playback.timelines: the next timeline, or on to seek
AfterPoll(i) ==
    IF i < Len(TrackList) THEN [pc |-> "poll", turn |-> i + 1]
    ELSE [pc |-> "seek", turn |-> 0]

\* after seek: PlaybackFinish is caught and leads to the finalization, any
\* other exception leaves real_download, a batch is dispatched entry by entry
AfterSeek(out, entries) ==
    IF out = "finished" THEN [pc |-> "final", turn |-> 1]
    ELSE IF out = "error" THEN [pc |-> "failed", turn |-> 0]
    ELSE IF Len(entries) = 0 THEN [pc |-> "end", turn |-> 0]
    ELSE [pc |-> "dispatch", turn |-> 0]

\* requested_format['offset'], set when the timeline's start is not close
\* to the playback's start
OffsetOf(timeline_start, playback_start) ==
    IF IsClose(timeline_start, playback_start, OffsetTolerance) THEN NoTime
    ELSE timeline_start - playback_start

\* real_download at the try (line 257): two requested formats, a Playback
\* over their HlsTimelines, all empty. (Lines 247-250 call HlsTimeline with
\* three of the four arguments its __init__ declares; the timelines are
\* taken as built.)
DriverInit ==
    /\ LedgerIdle
    /\ RawIdle
    /\ ListIdle
    /\ LookupIdle
    /\ kind = "hls"
    /\ span \in DriverSpans
    /\ segments = [t \in Tracks |-> <<>>]
    /\ cursor = span[1]
    /\ lastOp = "init"
    /\ outcome = "none"
    /\ batch = <<>>
    /\ oldCursor = span[1]
    /\ prevOutcome = "none"
    /\ released = [t \in Tracks |-> <<>>]
    /\ finished = FALSE
    /\ prevFinished = FALSE
    /\ pc = "poll"
    /\ turn = 1
    /\ is_end_list = FALSE
    /\ interrupted = FALSE
    /\ pending = <<>>
    /\ dispatched = [t \in Tracks |-> <<>>]
    /\ round = NewRound
    /\ finalized = [t \in Tracks |-> NotFinalized]

DriverFrame == UNCHANGED <<lvars, rvars, nvars, kvars>>

\* lines 262-271 for one timeline: the manifest is downloaded, its
\* fragments are inserted, is_end_list is taken from its stats
DriverPoll ==
    /\ pc = "poll"
    /\ \E fragments \in Manifests, ended \in BOOLEAN :
        LET t == TrackList[turn]
            after == InsertMany("hls", segments[t], fragments)
        IN  /\ TotalSegments([segments EXCEPT ![t] = after]) <= MaxSegs
            /\ Len(after) > Len(segments[t]) => Last(after).end <= MaxTime
            /\ segments' = [segments EXCEPT ![t] = after]
            /\ released' = [released EXCEPT ![t] =
                   @ \o [i \in 1..(Len(after) - Len(segments[t])) |-> 0]]
            /\ is_end_list' = (is_end_list \/ ended)
    /\ round' = [round EXCEPT !.polled = @ + 1,
                              !.insertedSinceSeek = (round.seeks > 0)]
    /\ pc' = AfterPoll(turn).pc
    /\ turn' = AfterPoll(turn).turn
    /\ lastOp' = "insert"
    /\ outcome' = "none"
    /\ batch' = <<>>
    /\ oldCursor' = cursor
    /\ prevOutcome' = "none"
    /\ prevFinished' = finished
    /\ UNCHANGED <<kind, span, cursor, finished>>
    /\ UNCHANGED <<interrupted, pending, dispatched, finalized>>
    /\ DriverFrame

\* line 273: playback.seek()
DriverSeek ==
    LET next == GetNextCursor(segments, cursor, span[2])
        out == SeekOutcome(next, span[2])
        entries == IF out = "batch"
                   THEN SeekBatch(segments, cursor, next.value, 1) ELSE <<>>
    IN
    /\ pc = "seek"
    /\ lastOp' = "seek"
    /\ outcome' = out
    /\ oldCursor' = cursor
    /\ prevOutcome' = outcome
    /\ prevFinished' = finished
    /\ finished' = (finished \/ out = "finished")
    /\ batch' = entries
    /\ pending' = entries
    /\ IF out = "batch"
       THEN /\ cursor' = next.value
            /\ released' = [t \in Tracks |-> [i \in 1..Len(segments[t]) |->
                   IF InWindow(segments[t][i], cursor, next.value)
                   THEN Bump(released[t][i]) ELSE released[t][i]]]
       ELSE UNCHANGED <<cursor, released>>
    /\ round' = [round EXCEPT !.seeks = @ + 1, !.polledAtSeek = round.polled,
                              !.insertedSinceSeek = FALSE]
    /\ pc' = AfterSeek(out, entries).pc
    /\ turn' = AfterSeek(out, entries).turn
    /\ UNCHANGED <<kind, span, segments>>
    /\ UNCHANGED <<is_end_list, interrupted, dispatched, finalized>>
    /\ DriverFrame

\* lines 274-276 for one (timeline, segments) of the batch
DriverDispatch ==
    /\ pc = "dispatch"
    /\ dispatched' = [dispatched EXCEPT ![Head(pending).timeline] =
                          @ \o Head(pending).segments]
    /\ pending' = Tail(pending)
    /\ pc' = IF Len(pending) = 1 THEN "end" ELSE "dispatch"
    /\ UNCHANGED <<turn, is_end_list, interrupted, round, finalized>>
    /\ UNCHANGED pvars
    /\ DriverFrame

\* lines 278-283: leave the loop when a manifest has ended, else sleep and
\* start the next round
DriverEndOfRound ==
    /\ pc = "end"
    /\ IF is_end_list
       THEN /\ pc' = "final"
            /\ turn' = 1
            /\ UNCHANGED round
       ELSE /\ pc' = "poll"
            /\ turn' = 1
            /\ round' = NewRound
    /\ UNCHANGED <<is_end_list, interrupted, pending, dispatched, finalized>>
    /\ UNCHANGED pvars
    /\ DriverFrame

\* line 284: KeyboardInterrupt raised anywhere in the loop
DriverInterrupt ==
    /\ pc \in {"poll", "seek", "dispatch", "end"}
    /\ interrupted' = TRUE
    /\ pc' = "final"
    /\ turn' = 1
    /\ UNCHANGED <<is_end_list, pending, dispatched, round, finalized>>
    /\ UNCHANGED pvars
    /\ DriverFrame

\* lines 287-298 for one timeline: math.isclose raises TypeError when the
\* start of the timeline or of the playback is None
DriverFinalize ==
    LET t == TrackList[turn]
        playback_start == GetStart(segments, span[1])
        timeline_start == GetTimelineStart(segments[t], span[1])
    IN
    /\ pc = "final"
    /\ IF \/ playback_start.raised
          \/ playback_start.value = NoTime
          \/ timeline_start.value = NoTime
       THEN /\ pc' = "failed"
            /\ UNCHANGED <<turn, finalized>>
       ELSE /\ finalized' = [finalized EXCEPT ![t] =
                   [times |-> @.times + 1,
                    offset |-> OffsetOf(timeline_start.value, playback_start.value)]]
            /\ pc' = IF turn < Len(TrackList) THEN "final" ELSE "done"
            /\ turn' = IF turn < Len(TrackList) THEN turn + 1 ELSE 0
    /\ UNCHANGED <<is_end_list, interrupted, pending, dispatched, round>>
    /\ UNCHANGED pvars
    /\ DriverFrame

DriverNext ==
    \/ DriverPoll
    \/ DriverSeek
    \/ DriverDispatch
    \/ DriverEndOfRound
    \/ DriverInterrupt
    \/ DriverFinalize

SpecDriver == DriverInit /\ [][DriverNext]_vars

\* ------------------------------------------------- what the claims speak of
Idx(t) == 1..Len(segments[t])

\* stored segments of t with end >= c
RelevantIdx(t, c) == {i \in Idx(t) : segments[t][i].end >= c}

\* those of them in the leading run with start < span.end
LeadingRunIdx(t, c) ==
    {i \in RelevantIdx(t, c) :
        \A j \in RelevantIdx(t, c) : j <= i => segments[t][j].start < span[2]}

RunEnds(t, c) == {segments[t][i].end : i \in LeadingRunIdx(t, c)}

\* the stored segments of t with c <= start < c2, in timeline order
Eligible(t, c, c2) ==
    SelectSeq(segments[t], LAMBDA s : c <= s.start /\ s.start < c2)

TrackPos(t) == CHOOSE i \in 1..Len(TrackList) : TrackList[i] = t

Sought == lastOp = "seek"
Returned == lastOp = "seek" /\ outcome = "batch"

\* C1: when every track has a stored segment with end >= cursor and seek
\* does not signal FINISHED, the cursor after seek is the minimum over the
\* tracks of the maximum end in the track's leading run of relevant segments
\* with start < span.end.
C1_CursorIsMinOfMax ==
    (Sought /\ outcome # "finished"
        /\ \A t \in Tracks : RelevantIdx(t, oldCursor) # {})
    => /\ \A t \in Tracks : RunEnds(t, oldCursor) # {}
       /\ cursor = SetMin({SetMax(RunEnds(t, oldCursor)) : t \in Tracks})

\* C1, in the seeks that return: the same equation.
C1_WhenSeekReturns ==
    (Returned /\ \A t \in Tracks : RelevantIdx(t, oldCursor) # {})
    => /\ \A t \in Tracks : RunEnds(t, oldCursor) # {}
       /\ cursor = SetMin({SetMax(RunEnds(t, oldCursor)) : t \in Tracks})

\* the batch lists, in track-list order, exactly the tracks with eligible
\* segments, each with exactly its eligible segments in timeline order
BatchIsEligible ==
    /\ \A k \in 1..Len(batch) :
          /\ batch[k].segments = Eligible(batch[k].timeline, oldCursor, cursor)
          /\ batch[k].segments # <<>>
    /\ \A k, l \in 1..Len(batch) :
          k < l => TrackPos(batch[k].timeline) < TrackPos(batch[l].timeline)
    /\ \A t \in Tracks :
          Eligible(t, oldCursor, cursor) # <<>>
              => \E k \in 1..Len(batch) : batch[k].timeline = t

\* C2: a seek that does not signal FINISHED returns, per track in track-list
\* order, exactly the stored segments with old cursor <= start < new cursor,
\* in timeline order, and leaves out the tracks that have none.
C2_BatchIsEligible ==
    (Sought /\ outcome # "finished") => (outcome = "batch" /\ BatchIsEligible)

\* C2, in the seeks that return.
C2_WhenSeekReturns == Returned => BatchIsEligible

SomeTrackLags == \E t \in Tracks : RelevantIdx(t, oldCursor) = {}

\* C3: if some track has no stored segment with end >= cursor, seek returns
\* an empty batch and leaves the cursor unchanged.
C3_LaggingTrackBlocks ==
    (Sought /\ SomeTrackLags)
    => (outcome = "batch" /\ batch = <<>> /\ cursor = oldCursor)

\* C3 as amended: with a lagging track seek releases nothing and leaves the
\* cursor unchanged; it returns an empty batch when cursor < span.end and
\* signals FINISHED when cursor >= span.end.
C3_LaggingTrackBlocksInWindow ==
    (Sought /\ SomeTrackLags)
    => /\ batch = <<>>
       /\ cursor = oldCursor
       /\ outcome = (IF oldCursor < span[2] THEN "batch" ELSE "finished")

\* a seek blocked by a lagging track while another track reaches past the cursor
C3_Witness ==
    /\ Sought /\ outcome = "batch"
    /\ \E t \in Tracks : RelevantIdx(t, oldCursor) = {} /\ segments[t] # <<>>
    /\ \E t \in Tracks : \E i \in Idx(t) : segments[t][i].end > oldCursor

AllEnds(t) == {segments[t][i].end : i \in Idx(t)}

\* C4: in every seek that returns a non-empty batch, every returned segment
\* starts strictly before the maximum known end of every track, and after the
\* seek every track still has a stored segment with end >= cursor.
C4_PacingGuarantee ==
    (Returned /\ batch # <<>>)
    => /\ \A k \in 1..Len(batch) : \A j \in 1..Len(batch[k].segments) :
            \A t \in Tracks :
               /\ AllEnds(t) # {}
               /\ batch[k].segments[j].start < SetMax(AllEnds(t))
       /\ \A t \in Tracks : RelevantIdx(t, cursor) # {}

\* a non-empty batch held back by one track while another reaches further
C4_Witness ==
    /\ Returned /\ batch # <<>>
    /\ \E t \in Tracks : SetMax(AllEnds(t)) = cursor
    /\ \E t \in Tracks : SetMax(AllEnds(t)) > cursor + 1

\* C5: of two consecutive seeks with no insertion between them, if the first
\* did not signal FINISHED the second returns an empty batch and leaves the
\* cursor where the first left it.
C5_SecondSeekIsNoop ==
    (Sought /\ prevOutcome \in {"batch", "error"})
    => (outcome = "batch" /\ batch = <<>> /\ cursor = oldCursor)

\* C5, when the first seek returned.
C5_WhenSeekReturns ==
    (Sought /\ prevOutcome = "batch")
    => (outcome = "batch" /\ batch = <<>> /\ cursor = oldCursor)

\* C6: the cursor starts at span.start and never decreases: after each seek
\* it is >= the cursor before it.
C6_CursorNeverDecreases ==
    /\ lastOp = "init" => cursor = span[1]
    /\ cursor >= oldCursor
    /\ cursor >= span[1]

\* a second advance of the cursor
C6_Witness == Sought /\ cursor > oldCursor /\ oldCursor > span[1]

\* the boundary a seek computes from the ledgers, where it is defined
BoundaryDefined ==
    SomeTrackLags \/ \A t \in Tracks : RunEnds(t, oldCursor) # {}
Boundary ==
    IF SomeTrackLags THEN oldCursor
    ELSE SetMin({SetMax(RunEnds(t, oldCursor)) : t \in Tracks})

\* C7: for span.start <= span.end, cursor <= span.end in every state; a seek
\* whose next cursor reaches span.end or more does not store it.
C7_CursorWithinSpan ==
    /\ span[1] <= span[2] => cursor <= span[2]
    /\ (Sought /\ BoundaryDefined /\ Boundary >= span[2]) => cursor = oldCursor

\* a seek of a non-empty window, after an advance, whose boundary reaches
\* span.end
C7_Witness ==
    /\ Sought /\ span[1] < span[2] /\ oldCursor > span[1]
    /\ BoundaryDefined /\ Boundary >= span[2]

\* C8, the FINISHED seek: signalled exactly when the boundary computed is
\* >= span.end, with no batch and the cursor unmoved.
C8_FinishAtSpanEnd ==
    /\ (Sought /\ outcome = "finished")
       => (batch = <<>> /\ cursor = oldCursor
           /\ BoundaryDefined /\ Boundary >= span[2])
    /\ (Sought /\ BoundaryDefined /\ Boundary < span[2]) => outcome = "batch"
    /\ ~Sought => finished = prevFinished

\* C8: the Playback stays RUNNING until a seek computes a boundary >=
\* span.end; that seek signals FINISHED without a batch or a cursor move, and
\* FINISHED is terminal: every later seek signals FINISHED again.
C8_FinishedIsTerminal ==
    /\ C8_FinishAtSpanEnd
    /\ (Sought /\ prevFinished) => outcome = "finished"

\* C8, for a span with start < end.
C8_InNonEmptyWindow ==
    span[1] < span[2] => ((Sought /\ prevFinished) => outcome = "finished")

\* C9: no stored segment of any track is returned by more than one seek.
C9_ReleasedAtMostOnce ==
    \A t \in Tracks :
        /\ Len(released[t]) = Len(segments[t])
        /\ \A i \in Idx(t) : released[t][i] <= 1

\* a seek that returns segments after an earlier seek returned others
C9_Witness ==
    /\ Returned /\ batch # <<>>
    /\ \E t \in Tracks : \E i \in Idx(t) :
          released[t][i] = 1 /\ segments[t][i].start < oldCursor

\* the unit of time [p, p + 1) lies in a stored segment of t
Covered(t, p) ==
    \E i \in Idx(t) : segments[t][i].start <= p /\ p < segments[t][i].end

\* each stored segment of t starts where the one before it ends
Contiguous(t) ==
    \A i \in Idx(t) : i > 1 => segments[t][i].start = segments[t][i - 1].end

Advanced == Returned /\ cursor > oldCursor

\* C10: after a seek that advances the cursor from c to c', the stored
\* segments of every track cover [c, c') with no gap wider than the
\* insertion tolerance.
C10_EveryTrackCovers ==
    Advanced
    => \A t \in Tracks : \A p \in oldCursor..(cursor - 1 - DashTolerance) :
          \E q \in p..(p + DashTolerance) : Covered(t, q)

\* C10 as amended: after a seek that advances the cursor from c to c', every
\* track whose ledger has no gap (each segment starts at the end of the one
\* before) and starts at or before c covers every point of [c, c').
C10_GaplessTracksCover ==
    Advanced
    => \A t \in Tracks :
          (Contiguous(t) /\ segments[t][1].start <= oldCursor)
          => \A p \in oldCursor..(cursor - 1) : Covered(t, p)

\* an advance over two segments of a gapless track
C10_Witness ==
    /\ Advanced
    /\ \E t \in Tracks :
          /\ Contiguous(t) /\ segments[t][1].start <= oldCursor
          /\ Len(Eligible(t, oldCursor, cursor)) >= 2
          /\ SetMax(AllEnds(t)) = cursor

\* ------------------------------------------------ claims on one timeline
\* strictly increasing starts, and no segment reaching into the next
Ordered(segs) ==
    \A i \in 1..(Len(segs) - 1) :
        /\ segs[i].start < segs[i + 1].start
        /\ segs[i].end <= segs[i + 1].start

SomeFiller(segs) == \E i \in 1..Len(segs) : segs[i].filling

OneInserted(p) == policy = p /\ call = "insert_one" /\ Len(ledgerBefore) > 0

\* new.start - last.end of that call
Lead == given[1].start - Last(ledgerBefore).end

\* the segment given, as _insert_timeline_segment stores it
Stored(new) ==
    [start |-> new.start, end |-> new.end, data |-> new.data, filling |-> FALSE]

Filler(from, to) ==
    [start |-> from, end |-> to, data |-> None, filling |-> TRUE]

\* C14: insert_one of a segment that starts after last.end by more than the
\* tolerance (0.01) appends exactly two segments: the filler
\* [last.end, new.start) with data None and filling true, then the segment
\* as given with filling false.
C14_GapGetsFiller ==
    (OneInserted("gap") /\ Lead > GapTolerance) =>
        ledger = ledgerBefore \o
                 <<Filler(Last(ledgerBefore).end, given[1].start), Stored(given[1])>>

\* C14, for times small enough that rel_tol * time stays below the tolerance
C14_AtSmallTimes == origin = 0 => C14_GapGetsFiller

\* C15: for the gap-filling Timeline and for DashTimeline, insert_one of a
\* segment whose start is before last.end by more than the policy's
\* tolerance changes nothing: the ledger (length, segments, get_end) is as
\* it was.
C15_OverlapRejected ==
    \A p \in {"gap", "dash"} :
        (OneInserted(p)
            /\ 0 - Lead > (IF p = "gap" THEN GapTolerance ELSE DashTolerance)) =>
            ledger = ledgerBefore

\* a gap-filling ledger of two segments turned away a segment that starts
\* before its end by more than the tolerance
C15_Witness ==
    /\ OneInserted("gap")
    /\ 0 - Lead > GapTolerance
    /\ Len(ledgerBefore) = 2
    /\ ledger = ledgerBefore

\* a DashTimeline turned away a segment that starts before its last end
C15_DashWitness ==
    /\ OneInserted("dash")
    /\ 0 - Lead > DashTolerance

\* C16: for every new segment with |last.end - segment.start| <= 0.01 (start
\* slightly before, equal to, or slightly after last.end) exactly one
\* segment is appended, the one given with filling false, and no filler.
C16_CloseIsAppended ==
    (OneInserted("gap") /\ Abs(Lead) <= GapTolerance) =>
        ledger = Append(ledgerBefore, Stored(given[1]))

\* C16 as the code has it: a start at last.end or after it by at most 0.01
\* appends the segment as given and no filler; any start before last.end,
\* however slightly, changes nothing.
C16_CloseAfterIsAppended ==
    OneInserted("gap") =>
        /\ (0 <= Lead /\ Lead <= GapTolerance) =>
               ledger = Append(ledgerBefore, Stored(given[1]))
        /\ Lead < 0 => ledger = ledgerBefore

\* a segment that starts 0.01 after last.end was appended as given
C16_Witness ==
    /\ OneInserted("gap")
    /\ Lead = GapTolerance
    /\ ledger = Append(ledgerBefore, Stored(given[1]))

RECURSIVE StoredAll(_)
StoredAll(news) ==
    IF Len(news) = 0 THEN <<>> ELSE <<Stored(Head(news))>> \o StoredAll(Tail(news))

\* C17: when contiguous segments (each start equal to the previous end) are
\* inserted in order into an empty gap-filling Timeline, every segment is
\* stored, there is no filler, and get_end() - get_start() is the sum of
\* the durations of the segments inserted.
C17_ContiguousChain ==
    (policy = "gap" /\ fed.chain /\ fed.count > 0) =>
        /\ Len(ledger) = fed.count
        /\ ledger = ledgerBefore \o StoredAll(given)
        /\ ~SomeFiller(ledger)
        /\ Last(ledger).end - ledger[1].start = fed.duration

\* three contiguous segments of unequal durations went in, the last two by
\* one insert_many
C17_Witness ==
    /\ policy = "gap"
    /\ fed.chain
    /\ fed.count = 3
    /\ call = "insert_many"
    /\ Len(ledger) = 3
    /\ ledger[1].end - ledger[1].start # ledger[2].end - ledger[2].start

\* every filler has data None and lies between two segments that are not
\* fillers and that it touches; the first segment is not a filler
FillersBridge(segs) ==
    \A i \in 1..Len(segs) :
        segs[i].filling =>
            /\ segs[i].data = None
            /\ 1 < i /\ i < Len(segs)
            /\ ~segs[i - 1].filling /\ segs[i - 1].end = segs[i].start
            /\ ~segs[i + 1].filling /\ segs[i + 1].start = segs[i].end

\* every segment starts at the end of the one before it, or after it by at
\* most the tolerance
Touching(segs) ==
    \A i \in 1..(Len(segs) - 1) :
        /\ 0 <= segs[i + 1].start - segs[i].end
        /\ segs[i + 1].start - segs[i].end <= GapTolerance

\* C18: after any sequence of insertions every adjacent pair of segments of
\* a gap-filling Timeline touches within the tolerance
\* (0 <= next.start - end <= 0.01), every filler has data None and is
\* preceded and followed by a segment that is not a filler and that it
\* touches exactly, and the first segment is never a filler.
C18_Gapless == policy = "gap" => (Touching(ledger) /\ FillersBridge(ledger))

\* C18, for times small enough that rel_tol * time stays below the tolerance
C18_AtSmallTimes == origin = 0 => C18_Gapless

\* C18, but for the width of the holes left open
C18_FillersBridge == policy = "gap" => FillersBridge(ledger)

\* C12: after any sequence of insert_one/insert_many calls the segments of
\* a DashTimeline and of an HlsTimeline are in strictly increasing start
\* order and each ends no later than the next one starts, also after a
\* start was clamped and after a jump of the media sequence.
C12_StreamLedgersOrdered == policy \in {"dash", "hls"} => Ordered(ledger)

\* C12, the part DashTimeline keeps: no segment reaches into the next
C12_DashNeverOverlaps ==
    policy = "dash" =>
        \A i \in 1..(Len(ledger) - 1) : ledger[i].end <= ledger[i + 1].start

\* C19: HlsTimeline.insert_one of a segment whose media_sequence is at most
\* that of the last stored segment leaves the ledger unchanged; applying
\* the same call (insert_one or insert_many of the same segments) a second
\* time changes nothing; the stored media_sequence values are strictly
\* increasing.
C19_DuplicatesIgnored ==
    policy = "hls" =>
        /\ (OneInserted("hls")
                /\ given[1].media_sequence <= Last(ledgerBefore).media_sequence) =>
               ledger = ledgerBefore
        /\ InsertMany("hls", ledger, given) = ledger
        /\ \A i \in 1..(Len(ledger) - 1) :
               ledger[i].media_sequence < ledger[i + 1].media_sequence

\* a refreshed playlist was inserted: its first segment was known already,
\* its second was new
C19_Witness ==
    /\ policy = "hls"
    /\ call = "insert_many"
    /\ Len(ledgerBefore) > 0
    /\ given[1].media_sequence = Last(ledgerBefore).media_sequence
    /\ Len(ledger) = Len(ledgerBefore) + 1
    /\ Last(ledger).media_sequence = given[2].media_sequence

\* C20: HlsTimeline.insert_one of a segment whose media_sequence is exactly
\* last.media_sequence + 1 appends exactly one segment, with start last.end
\* and end last.end + segment.duration whatever start and end the segment
\* reports, and with its other fields as given.
C20_NextIsPinned ==
    (OneInserted("hls")
        /\ given[1].media_sequence = Last(ledgerBefore).media_sequence + 1) =>
        ledger = Append(ledgerBefore,
                        [start |-> Last(ledgerBefore).end,
                         end |-> Last(ledgerBefore).end + given[1].duration,
                         duration |-> given[1].duration,
                         media_sequence |-> given[1].media_sequence])

\* the next segment reported times other than the ones it was stored with
C20_Witness ==
    /\ OneInserted("hls")
    /\ given[1].media_sequence = Last(ledgerBefore).media_sequence + 1
    /\ given[1].start # Last(ledgerBefore).end
    /\ Last(ledger).start = Last(ledgerBefore).end
    /\ Len(ledger) = Len(ledgerBefore) + 1

\* C13: every Timeline is append-only under each insertion policy
\* (gap-filling, HlsTimeline, DashTimeline): insert_one and insert_many
\* leave the segments stored before as a prefix of the ledger, unchanged
\* and in the same order, so the ledger never gets shorter; Playback.seek
\* and get_start leave the ledger as it is.
C13_AppendOnly ==
    call # "init" =>
        /\ Len(ledger) >= Len(ledgerBefore)
        /\ SubSeq(ledger, 1, Len(ledgerBefore)) = ledgerBefore
        /\ call \in {"seek", "get_start"} => ledger = ledgerBefore

\* a gap-filling ledger of one segment got a filler and a segment more
C13_Witness ==
    /\ OneInserted("gap")
    /\ Len(ledger) = Len(ledgerBefore) + 2
    /\ ledger[Len(ledgerBefore) + 1].filling

\* a playlist was inserted into an HlsTimeline that held a segment
C13_HlsWitness ==
    /\ policy = "hls"
    /\ call = "insert_many"
    /\ Len(ledgerBefore) = 1
    /\ Len(ledger) = 3

\* a DashTimeline that holds segments was read by seek
C13_ReadWitness ==
    /\ policy = "dash"
    /\ call = "seek"
    /\ Len(ledger) >= 2

\* C21: HlsTimeline.insert_one of a segment whose media_sequence is above
\* last.media_sequence by more than 1 appends exactly one segment, with
\* the start and end it reports, and no filler; the insertion does not
\* fail.
C21_JumpStoredAsReported ==
    (OneInserted("hls")
        /\ given[1].media_sequence > Last(ledgerBefore).media_sequence + 1) =>
        ledger = Append(ledgerBefore, given[1])

\* after a jump a segment was stored that starts away from the end of the
\* ledger
C21_Witness ==
    /\ OneInserted("hls")
    /\ given[1].media_sequence > Last(ledgerBefore).media_sequence + 1
    /\ given[1].start # Last(ledgerBefore).end
    /\ Last(ledger) = given[1]

\* C22: DashTimeline.insert_one of a segment with
\* |last.end - segment.start| <= tolerance (0.1) appends exactly one
\* segment, whose start is last.end and whose end is the end of the
\* segment given, so that it touches the segment stored before it.
C22_CloseIsClamped ==
    (OneInserted("dash") /\ Abs(Lead) <= DashTolerance) =>
        /\ ledger = Append(ledgerBefore,
                           [start |-> Last(ledgerBefore).end, end |-> given[1].end])
        /\ ledger[Len(ledger)].start = ledger[Len(ledger) - 1].end

\* a segment that starts 0.1 after the end of the ledger was clamped
C22_Witness ==
    /\ OneInserted("dash")
    /\ Lead = DashTolerance
    /\ Len(ledger) = Len(ledgerBefore) + 1
    /\ Last(ledger).start = Last(ledgerBefore).end

\* a segment that starts 0.1 before the end of the ledger was clamped
C22_BeforeWitness ==
    /\ OneInserted("dash")
    /\ 0 - Lead = DashTolerance
    /\ Len(ledger) = Len(ledgerBefore) + 1
    /\ Last(ledger).start = Last(ledgerBefore).end

\* C23: DashTimeline.insert_one of a segment that starts after last.end by
\* more than the tolerance appends the segment as given and no filler: the
\* ledger grows by exactly one segment.
C23_GapStoredAsGiven ==
    (OneInserted("dash") /\ Lead > DashTolerance) =>
        ledger = Append(ledgerBefore, given[1])

\* a DashTimeline holds two segments with a gap between them
C23_Witness ==
    /\ OneInserted("dash")
    /\ Lead > DashTolerance
    /\ Len(ledger) = 2
    /\ ledger[2].start > ledger[1].end + DashTolerance

\* the segment given is one the ledger held when the call started
Resent(p) ==
    /\ OneInserted(p)
    /\ \E i \in 1..Len(ledgerBefore) : AsGiven(p, ledgerBefore[i]) = given[1]

\* C24: for the gap-filling Timeline and for DashTimeline, insert_one of a
\* segment equal to one already in the ledger (the last one included, and
\* segments no longer than the tolerance included) leaves the ledger
\* unchanged.
C24_ResentIsIgnored ==
    \A p \in {"gap", "dash"} : Resent(p) => ledger = ledgerBefore

\* C24, for the gap-filling Timeline
C24_GapResentIsIgnored == Resent("gap") => ledger = ledgerBefore

\* C24, for the segments of a DashTimeline longer than the tolerance
C24_DashLongResentIsIgnored ==
    (Resent("dash") /\ given[1].end - given[1].start > DashTolerance) =>
        ledger = ledgerBefore

\* ------------------------------------------- claims on placeholders
\* the last call was insert_one of a segment whose start or end is absent
\* or None
PlaceholderSent == call = "insert_one" /\ ~WellFormed(given[1])

\* C25: for every insertion policy (gap-filling Timeline, HlsTimeline,
\* DashTimeline), insert_one of a segment whose start or end is missing or
\* null leaves the ledger unchanged and raises no error, whether the ledger
\* is empty or not.
C25_PlaceholderDropped ==
    PlaceholderSent => (ledger = ledgerBefore /\ ~reply.raised)

\* C25, for DashTimeline
C25_DashDropsPlaceholder ==
    (policy = "dash" /\ PlaceholderSent) => (ledger = ledgerBefore /\ ~reply.raised)

\* the first start of track t at or after the initial cursor, NoTime if none
OwnStart(t) ==
    LET at == {i \in 1..Len(segments[t]) : segments[t][i].start >= span[1]}
    IN  IF at = {} THEN NoTime ELSE segments[t][SetMin(at)].start

SomeTrackUnresolved ==
    \E t \in Tracks :
        \/ Len(segments[t]) = 0
        \/ \E i \in 1..Len(segments[t]) : ~WellFormed(segments[t][i])

StartAsked == lastOp = "get_start"

\* C26: Playback.get_start returns null, and does not fail, whenever a
\* track has no segments yet or holds a segment whose start or end is null;
\* otherwise it returns the minimum over the tracks of the track's first
\* segment start that is >= the initial cursor, which is never greater than
\* any track's own start.
C26_StartOrNull ==
    StartAsked =>
        IF SomeTrackUnresolved
        THEN reply = [raised |-> FALSE, value |-> NoTime]
        ELSE /\ ~reply.raised
             /\ (\A t \in Tracks : OwnStart(t) # NoTime) =>
                    /\ reply.value = SetMin({OwnStart(t) : t \in Tracks})
                    /\ \A t \in Tracks : reply.value <= OwnStart(t)

\* C26, when every stored segment has its start and end: null when a track
\* is empty or has no start at or after the initial cursor, the minimum of
\* the tracks' own starts otherwise
C26_WhenTimesKnown ==
    (StartAsked /\ AllWellFormed(segments)) =>
        /\ ~reply.raised
        /\ IF \E t \in Tracks : Len(segments[t]) = 0 \/ OwnStart(t) = NoTime
           THEN reply.value = NoTime
           ELSE /\ reply.value = SetMin({OwnStart(t) : t \in Tracks})
                /\ \A t \in Tracks : reply.value <= OwnStart(t)

\* ------------------------------------- claims on the processing list
\* the entries of list that come after the entry of key head, all of them
\* when head is NoHead
PastMark(list, head) ==
    IF head = NoHead THEN list
    ELSE LET at == {i \in 1..Len(list) : list[i].key = head}
         IN  SelectSeq(list, LAMBDA e :
                 \E i \in 1..Len(list) :
                     list[i] = e /\ \A j \in at : i > j)

IsPrefix(a, b) == Len(a) <= Len(b) /\ SubSeq(b, 1, Len(a)) = a

\* C27: inserting a key that is already present leaves entries (keys,
\* values, insertion order) and head_key unchanged; inserting a new key
\* appends it at the end of the insertion order with the given value; no
\* entry is ever removed or overwritten.
C27_FirstWriteWins ==
    /\ listCall = "insert" =>
        /\ head_key = headBefore
        /\ IF Exists(listBefore, listGiven[1].key)
           THEN processing_list = listBefore
           ELSE processing_list = Append(listBefore, listGiven[1])
    /\ IsPrefix(listBefore, processing_list)

\* a key that is present and was marked by seek was inserted again with
\* another value
C27_Witness ==
    /\ listCall = "insert"
    /\ \E i \in 1..Len(listBefore) :
           /\ listBefore[i].key = listGiven[1].key
           /\ listBefore[i].value # listGiven[1].value
    /\ head_key = listGiven[1].key
    /\ Len(processing_list) >= 2

\* C28: seek returns exactly the entries inserted after the marked
\* position, in insertion order (the whole ledger on the first non-empty
\* call), and then moves the mark to the newest key; it returns null and
\* leaves the mark unchanged when the ledger is empty or no entry lies past
\* the mark.
C28_SeekReturnsPastMark ==
    listCall = "seek" =>
        /\ processing_list = listBefore
        /\ IF Len(PastMark(listBefore, headBefore)) = 0
           THEN sought.null /\ head_key = headBefore
           ELSE /\ ~sought.null
                /\ sought.items = PastMark(listBefore, headBefore)
                /\ head_key = Last(listBefore).key

\* a later seek returned the two entries inserted since the one before it
C28_Witness ==
    /\ listCall = "seek"
    /\ headBefore # NoHead
    /\ Len(listBefore) = 3
    /\ ~sought.null
    /\ Len(sought.items) = 2
    /\ head_key = listBefore[3].key

\* the dicts seek has handed out, joined in the order of the calls, as
\* they are now: the first one is self.processing_list itself
Held == (IF handed.first THEN processing_list ELSE <<>>) \o handed.later

NoKeyTwice(list) ==
    \A i, j \in 1..Len(list) : list[i].key = list[j].key => i = j

\* C29: over any interleaving of insert, insert_many and seek, every key is
\* contained in at most one seek result, and immediately after any seek
\* every key inserted so far has been contained in exactly one seek result;
\* the concatenation of all non-null seek results equals the ledger in
\* insertion order.
C29_ExactlyOnce ==
    /\ NoKeyTwice(Held)
    /\ listCall = "seek" => Held = processing_list

\* C29, for the results as each was when its call returned: no key is in
\* two of them, and after a seek they join to the ledger
C29_OnceAtReturn ==
    /\ NoKeyTwice(handed.once)
    /\ listCall = "seek" => handed.once = processing_list

\* C30: insert_many(map) leaves the ledger as insert(key, value) for each
\* key of the map in the map's order does: keys present already keep their
\* first value and position, new keys are appended in first-seen order.
C30_InsertManyIsInserts ==
    listCall = "insert_many" =>
        /\ head_key = headBefore
        /\ processing_list =
               listBefore \o SelectSeq(listGiven,
                                 LAMBDA e : ~Exists(listBefore, e.key))
        /\ processing_list =
               IF Len(listGiven) = 1
               THEN ListInsert(listBefore, listGiven[1].key, listGiven[1].value)
               ELSE ListInsert(
                        ListInsert(listBefore, listGiven[1].key, listGiven[1].value),
                        listGiven[2].key, listGiven[2].value)

\* insert_many was given a key that is present, with another value, and
\* after it a new key
C30_Witness ==
    /\ listCall = "insert_many"
    /\ Len(listGiven) = 2
    /\ \E i \in 1..Len(listBefore) :
           /\ listBefore[i].key = listGiven[1].key
           /\ listBefore[i].value # listGiven[1].value
    /\ ~Exists(listBefore, listGiven[2].key)
    /\ Len(processing_list) = Len(listBefore) + 1

\* insert_many was given two new keys
C30_TwoNewWitness ==
    /\ listCall = "insert_many"
    /\ Len(listGiven) = 2
    /\ Len(listBefore) = 1
    /\ Len(processing_list) = 3

\* ------------------------------------------- claims on errors and the loop
LookedUp == lookup.call # "init"

\* C31: looking up a track id the Playback does not own fails with an
\* error: get_timeline and get_track never return null or any timeline for
\* an unknown id.
C31_UnknownIdFails ==
    (LookedUp /\ ~Owns(owned, lookup.asked)) => lookup.raised

\* C31, for get_track alone
C31_GetTrackFails ==
    (lookup.call = "get_track" /\ ~Owns(owned, lookup.asked)) =>
        (lookup.raised /\ lookup.found = NoTimeline)

\* C31, the other way: an id the Playback owns is found, by either lookup
C31_OwnedIsFound ==
    (LookedUp /\ Owns(owned, lookup.asked)) =>
        (~lookup.raised /\ owned[lookup.found] = lookup.asked)

\* C33: gap-filling Playback.seek: a stall is not an error: when some track
\* has no segment with end >= cursor (for example a track that is still
\* empty), seek returns an empty batch and leaves the cursor unchanged
\* instead of failing.
C33_StallIsEmptyBatch ==
    (kind = "gap" /\ Sought /\ SomeTrackLags) =>
        (outcome = "batch" /\ batch = <<>> /\ cursor = oldCursor)

\* C33, the other case: when every track has a segment with end >= cursor,
\* seek returns the segments of all tracks that start between the old and
\* the new cursor
C33_SeekWhenNoTrackLags ==
    (kind = "gap" /\ Sought /\ ~SomeTrackLags) =>
        /\ outcome = "batch"
        /\ cursor >= oldCursor
        /\ \A i \in 1..Len(batch) :
               oldCursor <= batch[i].start /\ batch[i].start < cursor

\* C33: a track lags only while it is empty
C33_OnlyEmptyTracksLag ==
    kind = "gap" =>
        \A t \in Tracks : RelevantIdx(t, cursor) = {} => Len(segments[t]) = 0

\* C34: in every polling round, insert_many has completed for every
\* timeline of the Playback before Playback.seek is called, seek is called
\* at most once per round, and no insertion into any timeline happens
\* between a seek and the dispatch of the batch it returned.
C34_SeekAfterAllInserts ==
    /\ round.seeks <= 1
    /\ round.seeks = 1 => round.polledAtSeek = Len(TrackList)
    /\ pc = "seek" => round.polled = Len(TrackList)
    /\ ~round.insertedSinceSeek
    /\ pc = "dispatch" => (lastOp = "seek" /\ round.seeks = 1)

\* a batch with an entry for each timeline is half dispatched, in a round
\* after the first
C34_Witness ==
    /\ pc = "dispatch"
    /\ Len(pending) = 1
    /\ Len(batch) = 2
    /\ round.polledAtSeek = Len(TrackList)
    /\ cursor > span[1]
    /\ \E t \in Tracks : Len(dispatched[t]) > Len(Head(batch).segments)

\* real_download has left the polling loop
LoopLeft == pc \in {"final", "done", "failed"}

\* C35, why its case does not arise: with span.end = math.inf no seek of
\* the loop signals FINISHED
C35_LoopNeverFinishes == outcome # "finished" /\ ~finished

C36_CompletesWhenStartsKnown ==
    /\ (LoopLeft /\ GetStart(segments, span[1]).value # NoTime) => pc # "failed"
    /\ pc = "done" => \A t \in Tracks : finalized[t].times = 1
    /\ \A t \in Tracks : finalized[t].times <= 1

\* segment i of timeline t was given to download_and_append_fragments
WasDispatched(t, i) ==
    \E j \in 1..Len(dispatched[t]) : dispatched[t][j] = segments[t][i]

\* the loop was left because a manifest reported the end of the playlist
EndOfStreamExit == LoopLeft /\ ~interrupted /\ is_end_list

C39_LastRoundIsDispatched ==
    EndOfStreamExit =>
        /\ round.seeks = 1
        /\ round.polledAtSeek = Len(TrackList)
        /\ pending = <<>>
        /\ \A e \in 1..Len(batch) : \A k \in 1..Len(batch[e].segments) :
               \E j \in 1..Len(dispatched[batch[e].timeline]) :
                   dispatched[batch[e].timeline][j] = batch[e].segments[k]

\* the first segment of track t with end >= c starts at or beyond span.end
CutIsEmpty(t, c) ==
    /\ RelevantIdx(t, c) # {}
    /\ LeadingRunIdx(t, c) = {}

\* C32: Playback.seek never surfaces a hard failure: for any tracks built
\* by DashTimeline/HlsTimeline insertions of segments with numeric
\* start < end, in any state and for any span, seek either returns a batch
\* (possibly empty) or signals FINISHED, and raises nothing else.
C32_SeekNeverRaises == Sought => outcome \in {"batch", "finished"}

\* C32, where the failure comes from: seek raises exactly when every track
\* has a segment with end >= cursor and, for some track, the first of
\* these starts at or beyond span.end
C32_RaisesWhenCutIsEmpty ==
    Sought =>
        (outcome = "error" <=>
            /\ \A t \in Tracks : RelevantIdx(t, oldCursor) # {}
            /\ \E t \in Tracks : CutIsEmpty(t, oldCursor))

\* segment i of track t was returned by a seek
WasReturned(t, i) == released[t][i] >= 1

\* C38: at the moment Playback.seek signals FINISHED, every stored segment
\* of every track with span.start <= start < span.end has already been
\* returned by an earlier seek.
C38_NoTailLoss ==
    (Sought /\ outcome = "finished") =>
        \A t \in Tracks : \A i \in Idx(t) :
            (span[1] <= segments[t][i].start /\ segments[t][i].start < span[2])
                => WasReturned(t, i)

\* C37: for a Playback over DashTimeline tracks fed segments with
\* start < end, in every reachable state the segments returned so far by
\* seek for each track are that track's stored segments with
\* span.start <= start < cursor.
C37_NoneSkipped ==
    kind = "dash" =>
        \A t \in Tracks : \A i \in Idx(t) :
            WasReturned(t, i) <=>
                (span[1] <= segments[t][i].start /\ segments[t][i].start < cursor)

\* C40: a batch returned by NonDuplicateProcessingList.seek is a snapshot:
\* inserts performed after the seek never change the contents of any batch
\* returned before (the batch of the first seek included), and the stored
\* head_key is always either null or a key present in the ledger.
C40_BatchesAreSnapshots ==
    /\ Held = handed.once
    /\ head_key = NoHead \/ Exists(processing_list, head_key)

\* C40, its second half: head_key is null or a key of the ledger, and it is
\* null exactly until a seek has returned a batch
C40_HeadKeyIsPresent ==
    /\ head_key = NoHead \/ Exists(processing_list, head_key)
    /\ head_key = NoHead <=> Len(handed.once) = 0

====
